---- MODULE Spec2Model ----
(***************************************************************************)
(* A model of src/ol/color.js: the colour string parser                    *)
(* (fromStringInternal_), its normalisation (normalize), the serialiser    *)
(* (toString) and the memoizing cache in front of the parser (fromString). *)
(*                                                                         *)
(* A JavaScript string is a sequence of one-character strings.             *)
(* A JavaScript number is a record [num, den]: the rational num/den in     *)
(* lowest terms with den > 0, or NaN when den = 0.  undefined only ever    *)
(* meets arithmetic in this file, where it behaves as NaN.                 *)
(***************************************************************************)
EXTENDS Integers, Sequences, FiniteSets, TLC

VARIABLES
    cache,      \* the cache object: its own properties, in creation order
    cacheSize,  \* the counter kept next to the cache
    call,       \* the latest fromString call: argument, path taken, result
    failed,     \* the strings on which fromString has thrown "invalid color"
    pc,         \* position of the parser/serialiser run
    tuple,      \* the colour handed to toString (<<>> when none)
    text,       \* the string handed to fromStringInternal_
    result      \* what fromStringInternal_ returned

vars == <<cache, cacheSize, call, failed, pc, tuple, text, result>>

-----------------------------------------------------------------------------
(* Bounds of the model *)

\* The source sets MAX_CACHE_SIZE to 1024 (color.js line 70); the model
\* scales it down so that a full cache and its eviction are reachable.
MAX_CACHE_SIZE == 5

\* Longest run of hex digits after '#' that the parser is tried on.
MaxHexDigits == 9

\* Most comma separated fields inside rgb( ) and rgba( ).
MaxFields == 5

\* Alpha values handed to toString have this many decimal places.
AlphaDigits == 1

-----------------------------------------------------------------------------
(* Numbers *)

NaN == [num |-> 0, den |-> 0]

IsNaN(x) == x.den = 0

Abs(n) == IF n < 0 THEN -n ELSE n

RECURSIVE GCD(_, _)
GCD(a, b) == IF b = 0 THEN a ELSE GCD(b, a % b)

Rat(n, d) == LET g == GCD(Abs(n), d) IN [num |-> n \div g, den |-> d \div g]

Whole(n) == [num |-> n, den |-> 1]

RECURSIVE Pow10(_)
Pow10(k) == IF k = 0 THEN 1 ELSE 10 * Pow10(k - 1)

Less(x, y) == x.num * y.den < y.num * x.den

\* Truncation toward zero, the integer conversion behind the | operator.
Trunc(x) == IF x.num >= 0 THEN x.num \div x.den ELSE -((-x.num) \div x.den)

\* x | 0.  NaN and undefined give 0.  The model's numbers stay far inside
\* the 32 bit range, where the wrap of ToInt32 is the identity.
BitOr0(x) == IF IsNaN(x) THEN 0 ELSE Trunc(x)

\* (x + 0.5) | 0
AddHalfOr0(x) ==
    IF IsNaN(x) THEN 0 ELSE BitOr0(Rat(2 * x.num + x.den, 2 * x.den))

\* array[i] of a JavaScript array, 1-based here; a missing element is
\* undefined, which the arithmetic of this file turns into NaN.
Elem(a, i) == IF i <= Len(a) THEN a[i] ELSE NaN

\* clamp of ol/math.js: Math.min(Math.max(value, min), max).
clamp(value, min, max) ==
    IF IsNaN(value) THEN NaN
    ELSE IF Less(value, Whole(min)) THEN Whole(min)
    ELSE IF Less(Whole(max), value) THEN Whole(max)
    ELSE value

-----------------------------------------------------------------------------
(* Characters and the conversions between strings and numbers *)

DigitChar == <<"0", "1", "2", "3", "4", "5", "6", "7", "8", "9">>

Digits == {DigitChar[i] : i \in 1..Len(DigitChar)}

DigitVal(c) == (CHOOSE i \in 1..Len(DigitChar) : DigitChar[i] = c) - 1

LowerHex == <<"a", "b", "c", "d", "e", "f">>

UpperHex == <<"A", "B", "C", "D", "E", "F">>

\* [0-9a-f] under the i flag
HexDigits ==
    Digits \cup {LowerHex[i] : i \in 1..Len(LowerHex)}
           \cup {UpperHex[i] : i \in 1..Len(UpperHex)}

HexVal(c) ==
    IF c \in Digits THEN DigitVal(c)
    ELSE IF \E i \in 1..Len(LowerHex) : LowerHex[i] = c
         THEN 9 + (CHOOSE i \in 1..Len(LowerHex) : LowerHex[i] = c)
         ELSE 9 + (CHOOSE i \in 1..Len(UpperHex) : UpperHex[i] = c)

\* [a-z] under the i flag
Letters ==
    {"a", "b", "c", "d", "e", "f", "g", "h", "i", "j", "k", "l", "m",
     "n", "o", "p", "q", "r", "s", "t", "u", "v", "w", "x", "y", "z",
     "A", "B", "C", "D", "E", "F", "G", "H", "I", "J", "K", "L", "M",
     "N", "O", "P", "Q", "R", "S", "T", "U", "V", "W", "X", "Y", "Z"}

Front(s) == SubSeq(s, 1, Len(s) - 1)

RECURSIVE DecVal(_)
DecVal(ds) ==
    IF ds = <<>> THEN 0 ELSE 10 * DecVal(Front(ds)) + DigitVal(ds[Len(ds)])

RECURSIVE Trim(_)
Trim(s) ==
    IF s = <<>> THEN s
    ELSE IF s[1] = " " THEN Trim(Tail(s))
    ELSE IF s[Len(s)] = " " THEN Trim(Front(s))
    ELSE s

\* The unsigned decimal literals: digits with at most one '.', and at least
\* one digit.
UnsignedToNumber(u) ==
    LET dots  == {i \in 1..Len(u) : u[i] = "."}
        dot   == IF dots = {} THEN Len(u) + 1 ELSE CHOOSE i \in dots : TRUE
        whole == SubSeq(u, 1, dot - 1)
        frac  == SubSeq(u, dot + 1, Len(u))
    IN  IF /\ Cardinality(dots) <= 1
           /\ \A i \in 1..Len(u) : u[i] \in Digits \cup {"."}
           /\ Len(whole) + Len(frac) >= 1
        THEN Rat(DecVal(whole \o frac), Pow10(Len(frac)))
        ELSE NaN

\* Number(s), the conversion Array.prototype.map(Number) applies to a field:
\* white space is trimmed, the empty string is 0, a decimal literal with an
\* optional sign is its value and anything else is NaN.  (Exponents, hex
\* literals and Infinity do not occur in the strings of this model.)
StrToNumber(s) ==
    LET t == Trim(s)
    IN  IF t = <<>> THEN Whole(0)
        ELSE IF t[1] = "-"
             THEN LET v == UnsignedToNumber(Tail(t))
                  IN  IF IsNaN(v) THEN NaN ELSE Rat(-v.num, v.den)
        ELSE IF t[1] = "+" THEN UnsignedToNumber(Tail(t))
        ELSE UnsignedToNumber(t)

RECURSIVE NatToString(_)
NatToString(n) ==
    IF n < 10 THEN <<DigitChar[n + 1]>>
    ELSE NatToString(n \div 10) \o <<DigitChar[(n % 10) + 1]>>

RECURSIVE ZeroPad(_, _)
ZeroPad(ds, k) == IF Len(ds) >= k THEN ds ELSE ZeroPad(<<"0">> \o ds, k)

\* Number of decimal places of a value with a terminating decimal expansion.
RECURSIVE Places(_, _)
Places(den, k) == IF Pow10(k) % den = 0 THEN k ELSE Places(den, k + 1)

\* The string a number concatenates as ('' + x): the shortest decimal that
\* reads back as x.  (The model only prints values with a short terminating
\* expansion, where no exponent is used.)
NumberToString(x) ==
    IF IsNaN(x) THEN <<"N", "a", "N">>
    ELSE LET k     == Places(x.den, 0)
             units == (Abs(x.num) * Pow10(k)) \div x.den
             whole == NatToString(units \div Pow10(k))
             frac  == IF k = 0 THEN <<>>
                      ELSE <<".">> \o ZeroPad(NatToString(units % Pow10(k)), k)
         IN  (IF x.num < 0 THEN <<"-">> ELSE <<>>) \o whole \o frac

-----------------------------------------------------------------------------
(* String helpers *)

StartsWith(s, prefix) ==
    Len(s) >= Len(prefix) /\ SubSeq(s, 1, Len(prefix)) = prefix

\* s.substr(start, length), start counted from 0
substr(s, start, length) ==
    SubSeq(s, start + 1, IF start + length > Len(s) THEN Len(s) ELSE start + length)

\* s.slice(start, -1): from position start (counted from 0) up to, and
\* without, the last character
sliceToLast(s, start) == SubSeq(s, start + 1, Len(s) - 1)

\* s.split(','): the empty string splits into one empty field
RECURSIVE split(_)
split(s) ==
    LET commas == {i \in 1..Len(s) : s[i] = ","}
    IN  IF commas = {} THEN <<s>>
        ELSE LET c == CHOOSE i \in commas : \A j \in commas : i <= j
             IN  <<SubSeq(s, 1, c - 1)>> \o split(SubSeq(s, c + 1, Len(s)))

\* fields.map(Number)
mapNumber(fields) == [i \in 1..Len(fields) |-> StrToNumber(fields[i])]

\* parseInt(t, 16): the value of the longest prefix of hex digits, NaN when
\* there is none
RECURSIVE HexPrefixVal(_, _)
HexPrefixVal(t, acc) ==
    IF t = <<>> \/ t[1] \notin HexDigits THEN acc
    ELSE HexPrefixVal(Tail(t), 16 * acc + HexVal(t[1]))

parseInt16(t) ==
    IF t = <<>> \/ t[1] \notin HexDigits THEN NaN ELSE Whole(HexPrefixVal(t, 0))

-----------------------------------------------------------------------------
(* The regular expressions *)

\* /^#(?:[0-9a-f]{3,4}){1,2}$/i : '#', then one or two groups, each of
\* three or four hex digits
GroupedDigitCounts ==
    {a : a \in 3..4} \cup {a + b : a \in 3..4, b \in 3..4}

HEX_COLOR_RE_(s) ==
    /\ Len(s) >= 1
    /\ s[1] = "#"
    /\ \A i \in 2..Len(s) : s[i] \in HexDigits
    /\ Len(s) - 1 \in GroupedDigitCounts

\* /^([a-z]*)$/i : letters only; the empty string matches
NAMED_COLOR_RE_(s) == \A i \in 1..Len(s) : s[i] \in Letters

-----------------------------------------------------------------------------
(* fromNamed: the colour the document computes for a div styled with the   *)
(* name.  A name CSS knows computes to its "rgb(r, g, b)" string; for any  *)
(* other word the style assignment is dropped and the div computes to the  *)
(* colour it inherits.                                                     *)

RedName == <<"r", "e", "d">>

RedComputed ==
    <<"r", "g", "b", "(", "2", "5", "5", ",", " ", "0", ",", " ", "0", ")">>

InheritedComputed ==
    <<"r", "g", "b", "(", "0", ",", " ", "0", ",", " ", "0", ")">>

fromNamed(color) == IF color = RedName THEN RedComputed ELSE InheritedComputed

-----------------------------------------------------------------------------
(* normalize, toString and fromStringInternal_ *)

\* normalize with the alpha rounded like a channel
normalizeRoundingAlpha(color) ==
    << clamp(Whole(AddHalfOr0(Elem(color, 1))), 0, 255),
       clamp(Whole(AddHalfOr0(Elem(color, 2))), 0, 255),
       clamp(Whole(AddHalfOr0(Elem(color, 3))), 0, 255),
       clamp(Whole(AddHalfOr0(Elem(color, 4))), 0, 1) >>

normalize(color) ==
    << clamp(Whole(AddHalfOr0(Elem(color, 1))), 0, 255),
       clamp(Whole(AddHalfOr0(Elem(color, 2))), 0, 255),
       clamp(Whole(AddHalfOr0(Elem(color, 3))), 0, 255),
       clamp(Elem(color, 4), 0, 1) >>

\* One of r, g, b in toString: rounded when r != (r | 0)
RoundedChannel(r) ==
    IF IsNaN(r) \/ r # Whole(BitOr0(r)) THEN Whole(AddHalfOr0(r)) ELSE r

RgbaPrefix == <<"r", "g", "b", "a", "(">>

RgbPrefix == <<"r", "g", "b", "(">>

toString(color) ==
    LET r == RoundedChannel(Elem(color, 1))
        g == RoundedChannel(Elem(color, 2))
        b == RoundedChannel(Elem(color, 3))
        a == IF Len(color) < 4 THEN Whole(1) ELSE color[4]
    IN  RgbaPrefix \o NumberToString(r) \o <<",">> \o NumberToString(g)
          \o <<",">> \o NumberToString(b) \o <<",">> \o NumberToString(a)
          \o <<")">>

\* assert(false, 14) throws; the thrown error is the empty tuple here.
InvalidColor == <<>>

\* v << 4 alone
ExpandNibbleShiftOnly(v) == IF IsNaN(v) THEN NaN ELSE Whole(v.num * 16)

\* (v << 4) + v
ExpandNibble(v) == IF IsNaN(v) THEN NaN ELSE Whole(v.num * 16 + v.num)

\* a / 255
Over255(a) == IF IsNaN(a) THEN NaN ELSE Rat(a.num, 255)

\* The hex branch of fromStringInternal_
hexColor(s) ==
    LET n        == Len(s) - 1
        d        == IF n <= 4 THEN 1 ELSE 2
        hasAlpha == n = 4 \/ n = 8
        r0       == parseInt16(substr(s, 1 + 0 * d, d))
        g0       == parseInt16(substr(s, 1 + 1 * d, d))
        b0       == parseInt16(substr(s, 1 + 2 * d, d))
        a0       == IF hasAlpha THEN parseInt16(substr(s, 1 + 3 * d, d))
                    ELSE Whole(255)
        r        == IF d = 1 THEN ExpandNibble(r0) ELSE r0
        g        == IF d = 1 THEN ExpandNibble(g0) ELSE g0
        b        == IF d = 1 THEN ExpandNibble(b0) ELSE b0
        a        == IF d = 1 /\ hasAlpha THEN ExpandNibble(a0) ELSE a0
    IN  <<r, g, b, Over255(a)>>

\* s.slice(5, -1).split(',').map(Number)
rgbaParts(s) == mapNumber(split(sliceToLast(s, 5)))

\* s.slice(4, -1).split(',').map(Number), then push(1)
rgbParts(s) == Append(mapNumber(split(sliceToLast(s, 4))), Whole(1))

fromStringInternal_(s0) ==
    LET s == IF NAMED_COLOR_RE_(s0) THEN fromNamed(s0) ELSE s0
    IN  IF HEX_COLOR_RE_(s) THEN hexColor(s)
        ELSE IF StartsWith(s, RgbaPrefix) THEN normalize(rgbaParts(s))
        ELSE IF StartsWith(s, RgbPrefix) THEN normalize(rgbParts(s))
        ELSE InvalidColor

-----------------------------------------------------------------------------
(* The cache of fromString *)

\* The strings looked up: colours that parse, one that does not, and
\* a word that is no colour name but names a method of Object.prototype.
RgbKey(i) == RgbPrefix \o NatToString(i) \o <<",", "0", ",", "0", ")">>

ShortHexKey == <<"#", "F", "0", "0", "a">>

FiveDigitKey == <<"#", "1", "2", "3", "4", "5">>

HasOwnPropertyName ==
    <<"h", "a", "s", "O", "w", "n", "P", "r", "o", "p", "e", "r", "t", "y">>

LookupStrings ==
    {RgbKey(i) : i \in 1..(MAX_CACHE_SIZE - 1)}
        \cup {ShortHexKey, RedName, FiveDigitKey, HasOwnPropertyName}

\* Object.prototype.hasOwnProperty.call(c, s): s is an own property of c
hasOwnProperty(c, s) == \E i \in 1..Len(c) : c[i].key = s

\* cache.hasOwnProperty is looked up on the cache object itself: once a
\* colour is stored under the key "hasOwnProperty" the stored array shadows
\* the inherited method and calling it throws a TypeError.
Shadowed(c) == hasOwnProperty(c, HasOwnPropertyName)

\* cache[s] on a hit
cachedColorOfFirst(c, s) == c[1].color

cachedColor(c, s) == c[CHOOSE i \in 1..Len(c) : c[i].key = s].color

\* cacheSize >= MAX_CACHE_SIZE
NeedsEvictionAboveMax(size) == size > MAX_CACHE_SIZE

NeedsEviction(size) == size >= MAX_CACHE_SIZE

\* The positions i (counted from 0) of the for-in loop with (i++ & 3) === 0.
\* for-in visits the own string keys of an object in creation order, and no
\* key of the cache is an array index.
EvictedPositionsPreIncrement(n) == {i \in 0..(n - 1) : (i + 1) % 4 = 0}

EvictedPositions(n) == {i \in 0..(n - 1) : i % 4 = 0}

\* The cache after the loop has deleted the entries at those positions
afterEviction(c) ==
    LET gone == EvictedPositions(Len(c))
        kept[i \in 0..Len(c)] ==
            IF i = 0 THEN <<>>
            ELSE IF (i - 1) \in gone THEN kept[i - 1]
            ELSE Append(kept[i - 1], c[i])
    IN  kept[Len(c)]

\* cacheSize after the loop: one --cacheSize for each delete
sizeAfterEvictionOnce(size, n) == size - 1

sizeAfterEviction(size, n) == size - Cardinality(EvictedPositions(n))

\* cache[s] = color
put(c, s, color) ==
    IF hasOwnProperty(c, s)
    THEN [i \in 1..Len(c) |->
             IF c[i].key = s THEN [key |-> s, color |-> color] ELSE c[i]]
    ELSE Append(c, [key |-> s, color |-> color])

\* Lines 102-104 on the cache: a throw of fromStringInternal_ leaves the
\* function before the store
missCache(c, s, color) == IF color = InvalidColor THEN c ELSE put(c, s, color)

\* Lines 102-104 on the counter: a throw leaves before ++cacheSize
missSizeCountingFailures(size, color) == size + 1

missSize(size, color) == IF color = InvalidColor THEN size ELSE size + 1

NoCall == [s |-> <<>>, outcome |-> "none", ret |-> <<>>, evicted |-> 0]

\* fromString(s).  call.outcome is "hit", "miss" (parsed and stored),
\* "invalid" (the parser threw) or "typeerror" (the cache test threw).
fromString(s) ==
    /\ pc = "cache"
    /\ IF Shadowed(cache)
       THEN /\ call' = [s |-> s, outcome |-> "typeerror",
                        ret |-> InvalidColor, evicted |-> 0]
            /\ UNCHANGED <<cache, cacheSize, failed>>
       ELSE IF hasOwnProperty(cache, s)
       THEN /\ call' = [s |-> s, outcome |-> "hit",
                        ret |-> cachedColor(cache, s), evicted |-> 0]
            /\ UNCHANGED <<cache, cacheSize, failed>>
       ELSE LET evict == NeedsEviction(cacheSize)
                c1    == IF evict THEN afterEviction(cache) ELSE cache
                n1    == IF evict THEN sizeAfterEviction(cacheSize, Len(cache))
                         ELSE cacheSize
                color == fromStringInternal_(s)
            IN  /\ cache' = missCache(c1, s, color)
                /\ cacheSize' = missSize(n1, color)
                /\ failed' = IF color = InvalidColor THEN failed \cup {s}
                             ELSE failed
                /\ call' = [s |-> s,
                            outcome |-> IF color = InvalidColor THEN "invalid"
                                        ELSE "miss",
                            ret |-> color,
                            evicted |-> Len(cache) - Len(c1)]
    /\ UNCHANGED <<pc, tuple, text, result>>

Init ==
    /\ cache = <<>>
    /\ cacheSize = 0
    /\ call = NoCall
    /\ failed = {}
    /\ pc = "cache"
    /\ tuple = <<>>
    /\ text = <<>>
    /\ result = <<>>

Next == \E s \in LookupStrings : fromString(s)

Spec == Init /\ [][Next]_vars

-----------------------------------------------------------------------------
(* The parser and the serialiser on their own: a string is parsed, or a    *)
(* colour is serialised and the string parsed back.                        *)

HexSample == {"0", "a", "F"}

HexInputs ==
    {<<"#">> \o ds : ds \in UNION {[1..n -> HexSample] : n \in 0..MaxHexDigits}}

FieldSample ==
    {<<>>, <<"1">>, <<"3", "0", "0">>, <<"-", "1", "0">>, <<"0", ".", "5">>,
     <<"x">>}

RECURSIVE join(_)
join(fields) ==
    IF Len(fields) = 1 THEN fields[1]
    ELSE fields[1] \o <<",">> \o join(Tail(fields))

FunctionalInputs ==
    {prefix \o join(fs) \o <<")">> :
        prefix \in {RgbPrefix, RgbaPrefix},
        fs \in UNION {[1..n -> FieldSample] : n \in 1..MaxFields}}

SevenDigitKey == <<"#", "1", "2", "3", "4", "5", "6", "7">>

OtherInputs ==
    {<<>>, RedName, HasOwnPropertyName, FiveDigitKey, SevenDigitKey,
     <<"#", "g", "g", "g">>, <<"#", "9", "8", "7", "6", "5", "4", "3", "2">>,
     <<"_", "_", "p", "r", "o", "t", "o", "_", "_">>}

ParseInputs == HexInputs \cup FunctionalInputs \cup OtherInputs

ChannelSample ==
    {Whole(-1), Whole(0), Rat(3, 2), Whole(128), Whole(255), Whole(256)}

AlphaSample ==
    {Rat(k, Pow10(AlphaDigits)) : k \in 0..Pow10(AlphaDigits)} \cup {Whole(2)}

TupleInputs ==
    {<<r, g, b, a>> : r \in ChannelSample, g \in ChannelSample,
                      b \in ChannelSample, a \in AlphaSample}
        \cup {<<r, r, r>> : r \in ChannelSample}

toStringCall ==
    /\ pc = "format"
    /\ text' = toString(tuple)
    /\ pc' = "parse"
    /\ UNCHANGED <<cache, cacheSize, call, failed, tuple, result>>

fromStringInternalCall ==
    /\ pc = "parse"
    /\ result' = fromStringInternal_(text)
    /\ pc' = "done"
    /\ UNCHANGED <<cache, cacheSize, call, failed, tuple, text>>

PureInit ==
    /\ cache = <<>>
    /\ cacheSize = 0
    /\ call = NoCall
    /\ failed = {}
    /\ result = <<>>
    /\ \/ pc = "format" /\ tuple \in TupleInputs /\ text = <<>>
       \/ pc = "parse" /\ tuple = <<>> /\ text \in ParseInputs

PureNext == toStringCall \/ fromStringInternalCall

PureSpec == PureInit /\ [][PureNext]_vars

-----------------------------------------------------------------------------
(* Properties of the cache, checked under Spec *)

Keys(c) == {c[i].key : i \in 1..Len(c)}

\* ceil(n / 4)
Quarter(n) == (n + 3) \div 4

Parsed(o) == o \in {"miss", "invalid"}

\* The tuple stored under key k
Stored(c, k) == c[CHOOSE i \in 1..Len(c) : c[i].key = k].color

\* C1. Cache bound: after every lookup, whatever its path, the cache holds
\* at most MAX_CACHE_SIZE entries.
C1_CacheBound == Len(cache) <= MAX_CACHE_SIZE /\ cacheSize <= MAX_CACHE_SIZE

\* A successful miss has just completed with the cache at its maximum.
C1_Witness == call.outcome = "miss" /\ Len(cache) = MAX_CACHE_SIZE

\* A fresh parse of each string that is looked up
FreshParse == [s \in LookupStrings |-> fromStringInternal_(s)]

\* C2. Cache correctness: every entry maps its key to the parse of that
\* key, and a lookup that returns, on a hit or on a miss, returns a tuple
\* equal to a fresh parse of its argument.
C2_CacheCorrect ==
    /\ \A i \in 1..Len(cache) :
           cache[i].color = FreshParse[cache[i].key]
    /\ call.outcome \in {"hit", "miss"} =>
           /\ call.ret # InvalidColor
           /\ call.ret = FreshParse[call.s]

\* A hit on the short hex key returns the stored tuple, with others stored.
C2_Witness ==
    /\ call.outcome = "hit"
    /\ call.s = ShortHexKey
    /\ call.ret = <<Whole(255), Whole(0), Whole(0), Rat(170, 255)>>
    /\ Len(cache) > 1

\* C3. Failures are not memoized: a lookup that fails with the invalid
\* colour error returns nothing and leaves its argument out of the cache,
\* and every later lookup of that argument takes the miss path and runs the
\* parser again.
C3_FailuresNotMemoized ==
    [][/\ call'.outcome = "invalid" =>
              call'.ret = InvalidColor /\ ~hasOwnProperty(cache', call'.s)
       /\ call'.s \in failed => call'.outcome = "invalid"]_vars

\* C8. Eviction step: entries are deleted only by a miss that finds the
\* cache at or above MAX_CACHE_SIZE; that miss, whether or not its parse then
\* succeeds, deletes exactly the entries at positions 0, 4, 8, ... and keeps
\* the others in order; when the parse succeeds the cache then holds
\* n - ceil(n/4) + 1 entries, the new one among them.  A hit and a miss
\* below the maximum delete nothing.
C8_EvictionStep ==
    [][LET n        == Len(cache)
           deleted  == Keys(cache) \ Keys(cache')
           expected == {cache[i + 1].key : i \in {j \in 0..(n - 1) : j % 4 = 0}}
       IN  /\ deleted # {} => Parsed(call'.outcome) /\ n >= MAX_CACHE_SIZE
           /\ Parsed(call'.outcome) /\ n >= MAX_CACHE_SIZE =>
                  /\ deleted = expected
                  /\ call'.evicted = Quarter(n)
                  /\ SubSeq(cache', 1, n - Quarter(n))
                         = SelectSeq(cache, LAMBDA e : e.key \notin expected)
                  /\ call'.outcome = "miss" =>
                         /\ Len(cache') = n - Quarter(n) + 1
                         /\ hasOwnProperty(cache', call'.s)
                  /\ call'.outcome = "invalid" => Len(cache') = n - Quarter(n)
           /\ call'.outcome = "hit" \/ n < MAX_CACHE_SIZE =>
                  /\ deleted = {}
                  /\ call'.evicted = 0
                  /\ Len(cache') >= n]_vars

\* A successful miss on a full cache has evicted a quarter and stored its key.
C8_Witness ==
    /\ call.outcome = "miss"
    /\ call.evicted = Quarter(MAX_CACHE_SIZE)
    /\ Len(cache) = MAX_CACHE_SIZE - Quarter(MAX_CACHE_SIZE) + 1
    /\ cache[Len(cache)].key = call.s

\* C9. Count accounting: cacheSize is the number of keys stored.
C9_CountAccounting ==
    cacheSize = Len(cache) /\ Cardinality(Keys(cache)) = Len(cache)

\* An eviction has run in a lookup whose parse then failed.
C9_Witness ==
    call.outcome = "invalid" /\ call.evicted > 1 /\ cacheSize = Len(cache)

\* C10 as stated. State unchanged on error: a lookup that fails with the
\* invalid colour error leaves the cache and cacheSize as they were.
C10_UnchangedOnError ==
    [][call'.outcome = "invalid" =>
           cache' = cache /\ cacheSize' = cacheSize]_vars

\* C10 amended. A lookup that fails with the invalid colour error leaves the
\* cache and cacheSize as they were when it started below MAX_CACHE_SIZE;
\* started at the maximum it has run the eviction, and then too it adds no
\* key and changes no stored tuple.
C10_UnchangedOnErrorBelowMax ==
    [][call'.outcome = "invalid" =>
           /\ cacheSize < MAX_CACHE_SIZE =>
                  cache' = cache /\ cacheSize' = cacheSize
           /\ Keys(cache') \subseteq Keys(cache)
           /\ \A i \in 1..Len(cache') :
                  cache'[i].color = Stored(cache, cache'[i].key)]_vars

\* A lookup has failed with the cache one short of the maximum.
C10_Witness ==
    /\ call.outcome = "invalid"
    /\ call.evicted = 0
    /\ Len(cache) = MAX_CACHE_SIZE - 1

-----------------------------------------------------------------------------
(* Properties of the parser and the serialiser, checked under PureSpec *)

IsHashAndHexDigits(s) ==
    Len(s) >= 1 /\ s[1] = "#" /\ \A i \in 2..Len(s) : s[i] \in HexDigits

ParsedString == pc = "done" /\ tuple = <<>>

\* C4. Hex acceptance by digit count: '#' followed by n hex digits parses
\* if and only if n is 3, 4, 6 or 8.
C4_HexDigitCounts ==
    ParsedString /\ IsHashAndHexDigits(text) =>
        (result # InvalidColor <=> Len(text) - 1 \in {3, 4, 6, 8})

\* Number of comma separated fields between the prefix and the last character
FieldCount(s, prefix) ==
    1 + Cardinality({i \in (Len(prefix) + 1)..(Len(s) - 1) : s[i] = ","})

\* C5. Arity rejection: "rgb(" with other than 3 fields and "rgba(" with
\* other than 4 fields fail with the invalid colour error.
C5_ArityRejected ==
    /\ ParsedString
    /\ \/ StartsWith(text, RgbPrefix) /\ FieldCount(text, RgbPrefix) # 3
       \/ StartsWith(text, RgbaPrefix) /\ FieldCount(text, RgbaPrefix) # 4
    => result = InvalidColor

IsWhole(x) == x.den = 1

InUnitInterval(x) == ~IsNaN(x) /\ ~Less(x, Whole(0)) /\ ~Less(Whole(1), x)

RoundTripped == pc = "done" /\ Len(tuple) = 4

\* C6 as stated. Round trip: a tuple of integral r, g, b and an alpha in
\* [0,1] is what parsing its serialised form returns.
C6_RoundTrip ==
    /\ RoundTripped
    /\ \A i \in 1..3 : IsWhole(tuple[i])
    /\ InUnitInterval(tuple[4])
    => result = tuple

\* C6 amended. Round trip: a tuple of integral r, g, b in [0,255] and an
\* alpha in [0,1] is what parsing its serialised form returns.
C6_RoundTripInRange ==
    /\ RoundTripped
    /\ \A i \in 1..3 : IsWhole(tuple[i]) /\ tuple[i].num \in 0..255
    /\ InUnitInterval(tuple[4])
    => result = tuple

\* A tuple with a fractional alpha has come back from its string.
C6_Witness ==
    /\ pc = "done"
    /\ tuple = <<Whole(128), Whole(0), Whole(255), Rat(1, 2)>>
    /\ text = RgbaPrefix \o <<"1", "2", "8", ",", "0", ",", "2", "5", "5",
                              ",", "0", ".", "5", ")">>
    /\ result = tuple

\* The value of the k-th group of d digits
GroupValue(digits, k, d) ==
    IF d = 1 THEN HexVal(digits[k]) * 16 + HexVal(digits[k])
    ELSE HexVal(digits[2 * k - 1]) * 16 + HexVal(digits[2 * k])

\* C7. Hex decoding: an accepted hex string gives [r, g, b, a/255], each
\* channel the value of its group of d digits (d = 1 up to 4 digits, else
\* 2), one-digit values v expanded to v*16+v, alpha read from the 4th group
\* exactly when there are 4 or 8 digits and 255 otherwise.
C7_HexDecoding ==
    ParsedString /\ IsHashAndHexDigits(text) /\ result # InvalidColor =>
        LET digits == Tail(text)
            n      == Len(digits)
            d      == IF n \in {3, 4} THEN 1 ELSE 2
            alpha  == IF n \in {4, 8} THEN GroupValue(digits, 4, d) ELSE 255
        IN  result = << Whole(GroupValue(digits, 1, d)),
                        Whole(GroupValue(digits, 2, d)),
                        Whole(GroupValue(digits, 3, d)),
                        Rat(alpha, 255) >>

\* "#F00a" has been decoded to [255, 0, 0, 170/255].
C7_Witness ==
    /\ ParsedString
    /\ text = ShortHexKey
    /\ result = <<Whole(255), Whole(0), Whole(0), Rat(170, 255)>>

====
